---- MODULE Spec2Model ----
(***************************************************************************)
(* Model of the update-distribution server (src/server.py): the version   *)
(* store kept in versions.json, the artifact directory updates/, and the  *)
(* five request handlers check, download, upload, health and index.       *)
(*                                                                         *)
(* Strings that the code parses or concatenates (version strings, paths,  *)
(* URLs) are sequences of one-character strings, so that parsing and      *)
(* formatting are computed and not assumed.  The alphabet of the version  *)
(* strings is the digits, ".", "v" and "x"; on this alphabet a string is  *)
(* a valid PEP 440 version exactly when it is an optional "v" followed by *)
(* dot-separated non-empty digit runs, which is what ParseVersion checks. *)
(* packaging.version.parse raises InvalidVersion on every other string    *)
(* (packaging >= 22, which has no LegacyVersion fallback).                 *)
(*                                                                         *)
(* A record of the store carries version, changelog, file_path and        *)
(* file_size.  The uploaded_at field (a timestamp no handler ever reads)  *)
(* is left out.                                                            *)
(*                                                                         *)
(* Spec, SpecRestart and SpecCompare take a request as one step: requests *)
(* that do not overlap.  SpecConc runs the requests of the threaded       *)
(* werkzeug server step by step, one step per access to versions.json or  *)
(* to the artifact directory, with no lock between them.  There           *)
(* versionsText tells what the bytes of versions.json are: "json", the    *)
(* serialization of versionsFile.data; "empty", the file open(.., 'w')    *)
(* has truncated and nothing was written to yet; "torn", a serialization  *)
(* followed by the rest of a longer one written before it.  procs holds   *)
(* the local variables of each request thread, saves the threads in the   *)
(* order in which they wrote versions.json.                                *)
(***************************************************************************)
EXTENDS Integers, Sequences, FiniteSets, TLC

VARIABLES versionsFile, updatesDir, req, resp, pre, cmp,
          versionsText, procs, saves

vars == <<versionsFile, updatesDir, req, resp, pre, cmp,
          versionsText, procs, saves>>

(* the state of the requests in flight *)
concVars == <<versionsText, procs, saves>>

----------------------------------------------------------------------------
(* Optional values: request.form.get / request.args.get return None for   *)
(* an absent field.                                                        *)
Absent == <<>>

Some(x) == <<x>>

GetOr(opt, default) == IF opt = Absent THEN default ELSE opt[1]

----------------------------------------------------------------------------
(* Version strings and packaging.version                                  *)

Digits == {"0", "1", "2", "3", "4", "5", "6", "7", "8", "9"}

DigitVal ==
    ("0" :> 0) @@ ("1" :> 1) @@ ("2" :> 2) @@ ("3" :> 3) @@ ("4" :> 4) @@
    ("5" :> 5) @@ ("6" :> 6) @@ ("7" :> 7) @@ ("8" :> 8) @@ ("9" :> 9)

DigitChar == <<"0", "1", "2", "3", "4", "5", "6", "7", "8", "9">>

(* str(n) for a natural number n *)
RECURSIVE IntToStr(_)
IntToStr(n) ==
    IF n < 10 THEN <<DigitChar[n + 1]>>
    ELSE IntToStr(n \div 10) \o <<DigitChar[(n % 10) + 1]>>

(* f"{major}.{minor}.{patch}" *)
FormatTriple(t) ==
    IntToStr(t[1]) \o <<".">> \o IntToStr(t[2]) \o <<".">> \o IntToStr(t[3])

(* s.split(".") *)
RECURSIVE SplitDots(_, _, _)
SplitDots(s, i, cur) ==
    IF i > Len(s) THEN <<cur>>
    ELSE IF s[i] = "." THEN <<cur>> \o SplitDots(s, i + 1, <<>>)
    ELSE SplitDots(s, i + 1, Append(cur, s[i]))

(* int(seg) with the digits added up instead of shifted into place *)
RECURSIVE DigitsToIntNoShift(_, _, _)
DigitsToIntNoShift(seg, i, acc) ==
    IF i > Len(seg) THEN acc
    ELSE DigitsToIntNoShift(seg, i + 1, acc + DigitVal[seg[i]])

(* int(seg) for a run of digits *)
RECURSIVE DigitsToInt(_, _, _)
DigitsToInt(seg, i, acc) ==
    IF i > Len(seg) THEN acc
    ELSE DigitsToInt(seg, i + 1, acc * 10 + DigitVal[seg[i]])

IsDigitRun(seg) == Len(seg) > 0 /\ \A i \in 1..Len(seg) : seg[i] \in Digits

(* the optional leading "v" of a PEP 440 version *)
StripV(s) == IF Len(s) > 0 /\ s[1] = "v" THEN Tail(s) ELSE s

(* Version._key drops the trailing zeros of the release: 1.10 == 1.10.0 *)
RECURSIVE StripTrailingZeros(_)
StripTrailingZeros(rel) ==
    IF Len(rel) > 0 /\ rel[Len(rel)] = 0
    THEN StripTrailingZeros(SubSeq(rel, 1, Len(rel) - 1))
    ELSE rel

(* packaging.version.parse(s): ok = FALSE stands for InvalidVersion *)
ParseVersion(s) ==
    LET segs == SplitDots(StripV(s), 1, <<>>)
        ok   == \A i \in 1..Len(segs) : IsDigitRun(segs[i])
    IN  IF ok
        THEN [ok |-> TRUE,
              key |-> StripTrailingZeros(
                         [i \in 1..Len(segs) |-> DigitsToInt(segs[i], 1, 0)])]
        ELSE [ok |-> FALSE, key |-> <<>>]

(* comparison of two release keys, as Python compares tuples of ints *)
RECURSIVE TupleGt(_, _, _)
TupleGt(x, y, i) ==
    IF i > Len(x) THEN FALSE
    ELSE IF i > Len(y) THEN TRUE
    ELSE IF x[i] # y[i] THEN x[i] > y[i]
    ELSE TupleGt(x, y, i + 1)

(* >= where the code has > *)
VersionGtOrEqual(pa, pb) == pa.key = pb.key \/ TupleGt(pa.key, pb.key, 1)

(* < where the code has > *)
VersionLt(pa, pb) == TupleGt(pb.key, pa.key, 1)

(* Version.__gt__ on two parsed versions *)
VersionGt(pa, pb) == TupleGt(pa.key, pb.key, 1)

(* str(InvalidVersion(s)) *)
InvalidVersionText(s) == <<"Invalid version: '">> \o s \o <<"'">>

----------------------------------------------------------------------------
(* Configuration                                                           *)

UPLOAD_KEY == "moneybot-secret-2024"

UPDATES_DIR == <<"updates">>

(* an artifact path that does not embed the version *)
FilePathFixed(version) == UPDATES_DIR \o <<"/", "MoneyBot", ".exe">>

(* UPDATES_DIR / f"MoneyBot_{version}.exe" *)
FilePath(version) == UPDATES_DIR \o <<"/", "MoneyBot_">> \o version \o <<".exe">>

(* f"{request.scheme}://{request.host}/update/download/{latest_version}" *)
DownloadUrl(version) == <<"http://host/update/download/">> \o version

DefaultCurrentVersion == <<"0", ".", "0", ".", "0">>

DefaultUploadChangelog == "Nova atualização"

----------------------------------------------------------------------------
(* The version store: versions.json holds a JSON object, which Python     *)
(* loads as a dict that keeps the order of insertion.  It is a sequence   *)
(* of entries [key, info] with pairwise distinct keys.                    *)

StoreKeys(versions) == {versions[i].key : i \in 1..Len(versions)}

StoreIndex(versions, k) == CHOOSE i \in 1..Len(versions) : versions[i].key = k

StoreGet(versions, k) == versions[StoreIndex(versions, k)].info

(* an insert that never looks for the key *)
StorePutAppend(versions, k, info) == Append(versions, [key |-> k, info |-> info])

(* an insert into a new dict instead of the loaded one *)
StorePutFresh(versions, k, info) == <<[key |-> k, info |-> info]>>

(* versions[k] = info *)
StorePut(versions, k, info) ==
    IF k \in StoreKeys(versions)
    THEN [versions EXCEPT ![StoreIndex(versions, k)].info = info]
    ELSE Append(versions, [key |-> k, info |-> info])

load_versions(file) == IF file.exists THEN file.data ELSE <<>>

save_versions(versions_data) == [exists |-> TRUE, data |-> versions_data]

(* The loop of get_latest_version.  The result is [raised, exc, latest]:  *)
(* raised with the exception text when a parse fails, else the optional   *)
(* record found.                                                          *)
RECURSIVE LatestScan(_, _, _, _)
LatestScan(versions, i, latest_version, latest) ==
    IF i > Len(versions)
    THEN [raised |-> FALSE, exc |-> <<>>, latest |-> latest]
    ELSE LET ver  == versions[i].key
             info == versions[i].info
         IN  IF latest_version = Absent
             THEN LatestScan(versions, i + 1, Some(ver), Some(info))
             ELSE LET pv == ParseVersion(ver)
                      pl == ParseVersion(latest_version[1])
                  IN  IF ~pv.ok
                      THEN [raised |-> TRUE, exc |-> InvalidVersionText(ver),
                            latest |-> Absent]
                      ELSE IF ~pl.ok
                      THEN [raised |-> TRUE,
                            exc |-> InvalidVersionText(latest_version[1]),
                            latest |-> Absent]
                      ELSE IF VersionGt(pv, pl)
                      THEN LatestScan(versions, i + 1, Some(ver), Some(info))
                      ELSE LatestScan(versions, i + 1, latest_version, latest)

get_latest_version(file) ==
    LET versions == load_versions(file)
    IN  IF versions = <<>>
        THEN [raised |-> FALSE, exc |-> <<>>, latest |-> Absent]
        ELSE LatestScan(versions, 1, Absent, Absent)

----------------------------------------------------------------------------
(* Responses                                                               *)

JsonError(status, text) ==
    [status |-> status, kind |-> "error", body |-> [error |-> text]]

CheckPayload(version, changelog, download_url, file_size) ==
    [status |-> 200, kind |-> "check",
     body |-> [version |-> version, changelog |-> changelog,
               download_url |-> download_url, file_size |-> file_size]]

(* a "no update" payload that does not echo the client's version *)
NoUpdateDefault(current_version) == CheckPayload(DefaultCurrentVersion, "", <<>>, 0)

NoUpdate(current_version) == CheckPayload(current_version, "", <<>>, 0)

NoResponse == [status |-> 0, kind |-> "none", body |-> <<>>]

(* check_update *)
CheckResponse(file, cvArg) ==
    LET current_version == GetOr(cvArg, DefaultCurrentVersion)
        r == get_latest_version(file)
    IN  IF r.raised THEN JsonError(500, r.exc)
        ELSE IF r.latest = Absent THEN NoUpdate(current_version)
        ELSE LET latest == r.latest[1]
                 latest_version == latest.version
                 pl == ParseVersion(latest_version)
                 pc == ParseVersion(current_version)
             IN  IF ~pl.ok THEN JsonError(500, InvalidVersionText(latest_version))
                 ELSE IF ~pc.ok
                 THEN JsonError(500, InvalidVersionText(current_version))
                 ELSE IF VersionGt(pl, pc)
                 THEN CheckPayload(latest_version, latest.changelog,
                                   DownloadUrl(latest_version), latest.file_size)
                 ELSE NoUpdate(current_version)

(* download_update without the os.path.exists test: send_file raises for  *)
(* a missing artifact and the handler answers 500                          *)
DownloadResponseNoExists(file, dir, version) ==
    LET versions == load_versions(file)
    IN  IF version \notin StoreKeys(versions)
        THEN JsonError(404, <<"Versão não encontrada">>)
        ELSE LET file_path == StoreGet(versions, version).file_path
             IN  IF file_path \notin DOMAIN dir
                 THEN JsonError(500, <<"No such file or directory">>)
                 ELSE [status |-> 200, kind |-> "file",
                       body |-> [content |-> dir[file_path],
                                 download_name |-> "MoneyBot.exe",
                                 mimetype |-> "application/octet-stream"]]

(* download_update *)
DownloadResponse(file, dir, version) ==
    LET versions == load_versions(file)
    IN  IF version \notin StoreKeys(versions)
        THEN JsonError(404, <<"Versão não encontrada">>)
        ELSE LET file_path == StoreGet(versions, version).file_path
             IN  IF file_path = <<>> \/ file_path \notin DOMAIN dir
                 THEN JsonError(404, <<"Arquivo não encontrado">>)
                 ELSE [status |-> 200, kind |-> "file",
                       body |-> [content |-> dir[file_path],
                                 download_name |-> "MoneyBot.exe",
                                 mimetype |-> "application/octet-stream"]]

(* index: get_latest_version is called outside any try, so an exception   *)
(* reaches the framework, which answers with its own 500 page.            *)
IndexResponse(file) ==
    LET r == get_latest_version(file)
    IN  IF r.raised
        THEN [status |-> 500, kind |-> "unhandled", body |-> <<>>]
        ELSE IF r.latest # Absent
        THEN [status |-> 200, kind |-> "index",
              body |-> [latest_version |-> Some(r.latest[1].version)]]
        ELSE [status |-> 200, kind |-> "index",
              body |-> [latest_version |-> Absent]]

HealthResponse == [status |-> 200, kind |-> "health", body |-> [status |-> "ok"]]

(* a key check that only asks for a key to be present *)
KeyPresent(key) == key # Absent

(* upload_key != UPLOAD_KEY, negated *)
KeyAccepted(key) == key = Some(UPLOAD_KEY)

(* a test for None that lets the empty string through *)
VersionIsNone(version) == version = Absent

(* not version *)
VersionMissing(version) == version = Absent \/ version[1] = <<>>

(* upload_update: the response, the store file and the artifact directory *)
(* the handler leaves behind, and the fields of the form it has read by   *)
(* the time it returns (a field it never reads is recorded as Absent).    *)
UploadResult(file, dir, form) ==
    LET unread == [key |-> Absent, version |-> Absent, changelog |-> Absent,
                   file |-> Absent]
        rejected(r, read) == [resp |-> r, file |-> file, dir |-> dir,
                              read |-> read]
        readKey  == [unread EXCEPT !.key = form.key]
        readData == [readKey EXCEPT !.version = form.version,
                                    !.changelog = form.changelog]
        readFile == [readData EXCEPT !.file = form.file]
        changelog == GetOr(form.changelog, DefaultUploadChangelog)
    IN  IF ~KeyAccepted(form.key)
        THEN rejected(JsonError(401, <<"Chave inválida">>), readKey)
        ELSE IF VersionMissing(form.version)
        THEN rejected(JsonError(400, <<"Versão não fornecida">>), readData)
        ELSE IF form.file = Absent
        THEN rejected(JsonError(400, <<"Arquivo não fornecido">>), readFile)
        ELSE IF form.file[1].filename = ""
        THEN rejected(JsonError(400, <<"Arquivo vazio">>), readFile)
        ELSE LET version   == form.version[1]
                 file_path == FilePath(version)
                 dir2      == (file_path :> form.file[1].content) @@ dir
                 file_size == Len(dir2[file_path])
                 versions  == StorePut(load_versions(file), version,
                                  [version   |-> version,
                                   changelog |-> changelog,
                                   file_path |-> file_path,
                                   file_size |-> file_size])
             IN  [resp |-> [status |-> 200, kind |-> "success",
                            body |-> [version |-> version,
                                      changelog |-> changelog,
                                      file_size |-> file_size]],
                  file |-> save_versions(versions),
                  dir  |-> dir2,
                  read |-> readFile]

----------------------------------------------------------------------------
(* Requests                                                                *)

V_x == <<"x">>

V_1_9 == <<"1", ".", "9">>

V_1_10 == <<"1", ".", "1", "0">>

V_1_10_0 == <<"1", ".", "1", "0", ".", "0">>

(* the version strings clients and publishers send *)
VersionInputs == {V_x, V_1_9, V_1_10, V_1_10_0}

KeyInputs == {Absent, Some("wrong"), Some(UPLOAD_KEY)}

ChangelogInputs == {Absent, Some("")}

FileA == [filename |-> "MoneyBot.exe", content |-> <<7>>]

FileB == [filename |-> "MoneyBot.exe", content |-> <<7, 8>>]

FileInputs ==
    {Absent, Some([filename |-> "", content |-> <<>>]), Some(FileA), Some(FileB)}

(* The multipart forms sent to upload.  With the configured key and a     *)
(* non-empty version every combination of changelog and file is sent.     *)
(* With a missing or empty version, and with a missing or wrong key, the  *)
(* file is absent or FileB; with a missing or wrong key every version     *)
(* input is sent, without a changelog.                                     *)
UploadForms ==
    {f \in [key : KeyInputs,
            version : {Absent, Some(<<>>)} \cup {Some(v) : v \in VersionInputs},
            changelog : ChangelogInputs,
            file : FileInputs] :
        \/ /\ f.key = Some(UPLOAD_KEY)
           /\ f.version \notin {Absent, Some(<<>>)}
        \/ /\ f.key = Some(UPLOAD_KEY)
           /\ f.file \in {Absent, Some(FileB)}
        \/ /\ f.changelog = Absent
           /\ f.file \in {Absent, Some(FileB)}}

(* the largest number of versions published in a run *)
MaxKeys == 2

Request(op, key, version, changelog, file, current_version) ==
    [op |-> op, key |-> key, version |-> version, changelog |-> changelog,
     file |-> file, current_version |-> current_version]

NoRequest == Request("none", Absent, Absent, Absent, Absent, Absent)

Snapshot == [versionsFile |-> versionsFile, updatesDir |-> updatesDir]

(* cmp holds two version strings under comparison: the triples ta and tb *)
(* they were formatted from, the strings a and b, and once done the       *)
(* results of parse(a) > parse(b) and parse(b) > parse(a).                *)
NoCompare ==
    [ta |-> <<>>, tb |-> <<>>, a |-> <<>>, b |-> <<>>, done |-> FALSE,
     gt |-> FALSE, lt |-> FALSE]

(* the major, minor and patch numbers compared *)
Components == {0, 1, 9, 10}

Triples == Components \X Components \X Components

(* the largest number of requests in flight at once *)
MaxConcRequests == 2

(* the request threads *)
Procs == 1..MaxConcRequests

(* A thread: where it is in its handler (pc), its request (op, version,  *)
(* current_version, content of the file part), its local variables         *)
(* (versions, file_path, file_size), its response, and the threads that    *)
(* were running when it started (seen).                                    *)
IdleProc ==
    [pc |-> "idle", op |-> "none", version |-> <<>>,
     current_version |-> Absent, content |-> <<>>, versions |-> <<>>,
     file_path |-> <<>>, file_size |-> 0, resp |-> NoResponse, seen |-> {}]

NoneInFlight ==
    /\ versionsText = "json"
    /\ procs = [p \in Procs |-> IdleProc]
    /\ saves = <<>>

----------------------------------------------------------------------------
(* The server: one action per request handler, each a whole request.      *)

Init ==
    /\ versionsFile \in {[exists |-> FALSE, data |-> <<>>],
                         [exists |-> TRUE, data |-> <<>>]}
    /\ updatesDir = <<>>
    /\ req = NoRequest
    /\ resp = NoResponse
    /\ pre = [versionsFile |-> versionsFile, updatesDir |-> <<>>]
    /\ cmp = NoCompare
    /\ NoneInFlight

Check ==
    \E cv \in {Absent, Some(<<>>)} \cup {Some(v) : v \in VersionInputs} :
        /\ req' = Request("check", Absent, Absent, Absent, Absent, cv)
        /\ resp' = CheckResponse(versionsFile, cv)
        /\ pre' = Snapshot
        /\ UNCHANGED <<versionsFile, updatesDir, cmp, concVars>>

Download ==
    \E v \in VersionInputs :
        /\ req' = Request("download", Absent, Some(v), Absent, Absent, Absent)
        /\ resp' = DownloadResponse(versionsFile, updatesDir, v)
        /\ pre' = Snapshot
        /\ UNCHANGED <<versionsFile, updatesDir, cmp, concVars>>

Upload ==
    \E form \in UploadForms :
        \E r \in {UploadResult(versionsFile, updatesDir, form)} :
            /\ Len(r.file.data) <= MaxKeys
            /\ req' = Request("upload", r.read.key, r.read.version,
                              r.read.changelog, r.read.file, Absent)
            /\ resp' = r.resp
            /\ versionsFile' = r.file
            /\ updatesDir' = r.dir
            /\ pre' = Snapshot
            /\ UNCHANGED <<cmp, concVars>>

Health ==
    /\ req' = Request("health", Absent, Absent, Absent, Absent, Absent)
    /\ resp' = HealthResponse
    /\ pre' = Snapshot
    /\ UNCHANGED <<versionsFile, updatesDir, cmp, concVars>>

Index ==
    /\ req' = Request("index", Absent, Absent, Absent, Absent, Absent)
    /\ resp' = IndexResponse(versionsFile)
    /\ pre' = Snapshot
    /\ UNCHANGED <<versionsFile, updatesDir, cmp, concVars>>

Next == Check \/ Download \/ Upload \/ Health \/ Index

Spec == Init /\ [][Next]_vars

----------------------------------------------------------------------------
(* The server restarted over the store a previous run has written, with   *)
(* the artifact directory gone: start-up creates it again, empty.         *)

(* the stores left by a run that published one version *)
PriorStores ==
    {UploadResult([exists |-> FALSE, data |-> <<>>], <<>>,
                  [key |-> Some(UPLOAD_KEY), version |-> Some(v),
                   changelog |-> Absent, file |-> Some(FileA)]).file :
        v \in VersionInputs}

InitRestart ==
    /\ versionsFile \in PriorStores
    /\ updatesDir = <<>>
    /\ req = NoRequest
    /\ resp = NoResponse
    /\ pre = [versionsFile |-> versionsFile, updatesDir |-> <<>>]
    /\ cmp = NoCompare
    /\ NoneInFlight

SpecRestart == InitRestart /\ [][Next]_vars

----------------------------------------------------------------------------
(* The version comparison on its own: parse(a) > parse(b) applied to the  *)
(* strings of two major.minor.patch triples.                              *)

InitCompare ==
    /\ versionsFile = [exists |-> FALSE, data |-> <<>>]
    /\ updatesDir = <<>>
    /\ req = NoRequest
    /\ resp = NoResponse
    /\ pre = [versionsFile |-> versionsFile, updatesDir |-> <<>>]
    /\ cmp \in {[ta |-> ta, tb |-> tb, a |-> FormatTriple(ta),
                  b |-> FormatTriple(tb), done |-> FALSE, gt |-> FALSE,
                  lt |-> FALSE] : ta \in Triples, tb \in Triples}
    /\ NoneInFlight

Compare ==
    /\ ~cmp.done
    /\ cmp' = [cmp EXCEPT
                  !.done = TRUE,
                  !.gt = VersionGt(ParseVersion(cmp.a), ParseVersion(cmp.b)),
                  !.lt = VersionGt(ParseVersion(cmp.b), ParseVersion(cmp.a))]
    /\ UNCHANGED <<versionsFile, updatesDir, req, resp, pre, concVars>>

NextCompare == Compare

SpecCompare == InitCompare /\ [][NextCompare]_vars

----------------------------------------------------------------------------
(* Overlapping requests.  app.run serves each request on its own thread;  *)
(* a step below is one access of a handler to versions.json or to the     *)
(* artifact directory, and the steps of different threads interleave.     *)

(* the version strings of the overlapping requests *)
ConcVersions == {V_1_9, V_1_10}

(* The requests that overlap: uploads that pass the validation of lines   *)
(* 152-170 (configured key, a version, a named file, no changelog), and   *)
(* the four reading requests.                                              *)
ConcRequests ==
    {[op |-> "upload", version |-> v, current_version |-> Absent,
      content |-> f.content] : v \in ConcVersions, f \in {FileA, FileB}}
    \cup {[op |-> "check", version |-> <<>>, current_version |-> cv,
           content |-> <<>>] : cv \in {Absent, Some(V_x)}}
    \cup {[op |-> "download", version |-> v, current_version |-> Absent,
           content |-> <<>>] : v \in ConcVersions}
    \cup {[op |-> o, version |-> <<>>, current_version |-> Absent,
           content |-> <<>>] : o \in {"health", "index"}}

(* the handlers that never write *)
ReadOps == {"check", "download", "health", "index"}

(* json.load on a file that is empty or has text after the document *)
JsonDecodeText == <<"JSONDecodeError">>

(* mode 'w' where load_versions has 'r' *)
OpenReadTruncating(file) == [exists |-> TRUE, data |-> <<>>]

(* open(VERSIONS_FILE, 'r'): the file is left as it is *)
OpenRead(file) == file

(* open(VERSIONS_FILE, 'w'): the file exists and is empty *)
OpenWrite(file) == [exists |-> TRUE, data |-> <<>>]

(* versions.json after load_versions has run on it *)
FileAfterLoad(file) == IF file.exists THEN OpenRead(file) ELSE file

(* load_versions on the bytes now in versions.json: json.load raises on   *)
(* an empty or a torn file                                                 *)
LoadNow ==
    IF versionsFile.exists /\ versionsText # "json"
    THEN [raised |-> TRUE, exc |-> JsonDecodeText, versions |-> <<>>]
    ELSE [raised |-> FALSE, exc |-> <<>>,
          versions |-> load_versions(versionsFile)]

(* a write of content at offset 0 of a file that holds old: what lies     *)
(* beyond the written bytes stays                                          *)
Overlay(old, content) ==
    IF Len(old) > Len(content)
    THEN content \o SubSeq(old, Len(content) + 1, Len(old))
    ELSE content

(* the record upload stores, from the local variables of thread p *)
UploadRecord(pr) ==
    [version   |-> pr.version,
     changelog |-> DefaultUploadChangelog,
     file_path |-> pr.file_path,
     file_size |-> pr.file_size]

(* the mapping thread p hands to save_versions *)
Written(pr) == StorePut(pr.versions, pr.version, UploadRecord(pr))

Running == {q \in Procs : procs[q].pc \notin {"idle", "done"}}

Finish(p, r) == procs' = [procs EXCEPT ![p].pc = "done", ![p].resp = r]

(* a request arrives and its thread starts; threads start in their order  *)
Begin(p) ==
    /\ procs[p].pc = "idle"
    /\ \A q \in Procs : q < p => procs[q].pc # "idle"
    /\ \E r \in ConcRequests :
           procs' = [procs EXCEPT ![p] =
                        [IdleProc EXCEPT !.pc = "started", !.op = r.op,
                                         !.version = r.version,
                                         !.current_version = r.current_version,
                                         !.content = r.content,
                                         !.seen = Running]]
    /\ UNCHANGED <<versionsFile, updatesDir, req, resp, pre, cmp,
                   versionsText, saves>>

(* check_update, whose one access is the load of get_latest_version *)
CheckStep(p) ==
    /\ procs[p].pc = "started" /\ procs[p].op = "check"
    /\ Finish(p, IF LoadNow.raised THEN JsonError(500, LoadNow.exc)
                 ELSE CheckResponse(versionsFile, procs[p].current_version))
    /\ versionsFile' = FileAfterLoad(versionsFile)
    /\ UNCHANGED <<updatesDir, req, resp, pre, cmp, versionsText, saves>>

(* index, whose one access is the load of get_latest_version *)
IndexStep(p) ==
    /\ procs[p].pc = "started" /\ procs[p].op = "index"
    /\ Finish(p, IF LoadNow.raised
                 THEN [status |-> 500, kind |-> "unhandled", body |-> <<>>]
                 ELSE IndexResponse(versionsFile))
    /\ versionsFile' = FileAfterLoad(versionsFile)
    /\ UNCHANGED <<updatesDir, req, resp, pre, cmp, versionsText, saves>>

HealthStep(p) ==
    /\ procs[p].pc = "started" /\ procs[p].op = "health"
    /\ Finish(p, HealthResponse)
    /\ UNCHANGED <<versionsFile, updatesDir, req, resp, pre, cmp,
                   versionsText, saves>>

(* download_update, lines 117-122: the load and the lookup *)
DownloadLoad(p) ==
    /\ procs[p].pc = "started" /\ procs[p].op = "download"
    /\ IF LoadNow.raised
       THEN Finish(p, JsonError(500, LoadNow.exc))
       ELSE IF procs[p].version \notin StoreKeys(LoadNow.versions)
       THEN Finish(p, JsonError(404, <<"Versão não encontrada">>))
       ELSE procs' = [procs EXCEPT
                         ![p].pc = "loaded",
                         ![p].file_path =
                             StoreGet(LoadNow.versions,
                                      procs[p].version).file_path]
    /\ versionsFile' = FileAfterLoad(versionsFile)
    /\ UNCHANGED <<updatesDir, req, resp, pre, cmp, versionsText, saves>>

(* download_update, line 124: os.path.exists *)
DownloadExists(p) ==
    /\ procs[p].pc = "loaded" /\ procs[p].op = "download"
    /\ IF procs[p].file_path = <<>> \/ procs[p].file_path \notin DOMAIN updatesDir
       THEN Finish(p, JsonError(404, <<"Arquivo não encontrado">>))
       ELSE procs' = [procs EXCEPT ![p].pc = "checked"]
    /\ UNCHANGED <<versionsFile, updatesDir, req, resp, pre, cmp,
                   versionsText, saves>>

(* download_update, lines 127-132: send_file reads the bytes now there *)
DownloadSend(p) ==
    /\ procs[p].pc = "checked" /\ procs[p].op = "download"
    /\ Finish(p, [status |-> 200, kind |-> "file",
                  body |-> [content |-> updatesDir[procs[p].file_path],
                            download_name |-> "MoneyBot.exe",
                            mimetype |-> "application/octet-stream"]])
    /\ UNCHANGED <<versionsFile, updatesDir, req, resp, pre, cmp,
                   versionsText, saves>>

(* upload_update, lines 173-174: file.save opens the artifact for        *)
(* writing, which creates or truncates it                                  *)
UploadOpen(p) ==
    /\ procs[p].pc = "started" /\ procs[p].op = "upload"
    /\ procs' = [procs EXCEPT ![p].pc = "opened",
                              ![p].file_path = FilePath(procs[p].version)]
    /\ updatesDir' = (FilePath(procs[p].version) :> <<>>) @@ updatesDir
    /\ UNCHANGED <<versionsFile, req, resp, pre, cmp, versionsText, saves>>

(* upload_update, line 174: file.save copies the upload from offset 0 *)
UploadWrite(p) ==
    /\ procs[p].pc = "opened" /\ procs[p].op = "upload"
    /\ procs' = [procs EXCEPT ![p].pc = "written"]
    /\ updatesDir' = [updatesDir EXCEPT ![procs[p].file_path] =
                         Overlay(@, procs[p].content)]
    /\ UNCHANGED <<versionsFile, req, resp, pre, cmp, versionsText, saves>>

(* upload_update, line 176: os.path.getsize *)
UploadGetSize(p) ==
    /\ procs[p].pc = "written" /\ procs[p].op = "upload"
    /\ procs' = [procs EXCEPT
                    ![p].pc = "sized",
                    ![p].file_size = Len(updatesDir[procs[p].file_path])]
    /\ UNCHANGED <<versionsFile, updatesDir, req, resp, pre, cmp,
                   versionsText, saves>>

(* upload_update, line 179: load_versions; an exception is answered 500 *)
UploadLoad(p) ==
    /\ procs[p].pc = "sized" /\ procs[p].op = "upload"
    /\ IF LoadNow.raised
       THEN Finish(p, JsonError(500, LoadNow.exc))
       ELSE procs' = [procs EXCEPT ![p].pc = "loaded",
                                   ![p].versions = LoadNow.versions]
    /\ versionsFile' = FileAfterLoad(versionsFile)
    /\ UNCHANGED <<updatesDir, req, resp, pre, cmp, versionsText, saves>>

(* save_versions, line 33: open(VERSIONS_FILE, 'w') truncates the file *)
UploadOpenStore(p) ==
    /\ procs[p].pc = "loaded" /\ procs[p].op = "upload"
    /\ procs' = [procs EXCEPT ![p].pc = "saving"]
    /\ versionsFile' = OpenWrite(versionsFile)
    /\ versionsText' = "empty"
    /\ UNCHANGED <<updatesDir, req, resp, pre, cmp, saves>>

(* save_versions, line 34, and the success response: json.dump writes    *)
(* the whole mapping from offset 0.  On a file that another thread has    *)
(* written to since this thread truncated it, the bytes beyond the end of *)
(* this thread's text stay: the file is torn when the other text was the  *)
(* longer one.  The lengths depend on the uploaded_at strings, which the  *)
(* model leaves out, so both outcomes are taken.                           *)
UploadDump(p) ==
    /\ procs[p].pc = "saving" /\ procs[p].op = "upload"
    /\ versionsFile' = save_versions(Written(procs[p]))
    /\ versionsText' \in IF versionsText = "empty" THEN {"json"}
                         ELSE {"json", "torn"}
    /\ saves' = Append(saves, p)
    /\ Finish(p, [status |-> 200, kind |-> "success",
                  body |-> [version |-> procs[p].version,
                            changelog |-> DefaultUploadChangelog,
                            file_size |-> procs[p].file_size]])
    /\ UNCHANGED <<updatesDir, req, resp, pre, cmp>>

(* the server as the requests find it: just created, or after one upload *)
ConcStarts ==
    {[file |-> [exists |-> FALSE, data |-> <<>>], dir |-> <<>>],
     UploadResult([exists |-> FALSE, data |-> <<>>], <<>>,
                  [key |-> Some(UPLOAD_KEY), version |-> Some(V_1_9),
                   changelog |-> Absent, file |-> Some(FileA)])}

InitConc ==
    /\ \E s \in ConcStarts :
           /\ versionsFile = s.file
           /\ updatesDir = s.dir
           /\ pre = [versionsFile |-> s.file, updatesDir |-> s.dir]
    /\ req = NoRequest
    /\ resp = NoResponse
    /\ cmp = NoCompare
    /\ NoneInFlight

NextConc ==
    \E p \in Procs :
        \/ Begin(p)
        \/ CheckStep(p)
        \/ IndexStep(p)
        \/ HealthStep(p)
        \/ DownloadLoad(p)
        \/ DownloadExists(p)
        \/ DownloadSend(p)
        \/ UploadOpen(p)
        \/ UploadWrite(p)
        \/ UploadGetSize(p)
        \/ UploadLoad(p)
        \/ UploadOpenStore(p)
        \/ UploadDump(p)

SpecConc == InitConc /\ [][NextConc]_vars

----------------------------------------------------------------------------
(* What the claims are stated with.                                        *)

(* The release each input string denotes, as (major, minor, patch); the   *)
(* strings outside the domain are not semantic versions.                   *)
Release ==
    (V_1_9 :> <<1, 9, 0>>) @@ (V_1_10 :> <<1, 10, 0>>) @@
    (V_1_10_0 :> <<1, 10, 0>>) @@ (DefaultCurrentVersion :> <<0, 0, 0>>)

Parseable(s) == s \in DOMAIN Release

(* t is a strictly later release than u: major, then minor, then patch *)
Later(t, u) ==
    \/ t[1] > u[1]
    \/ t[1] = u[1] /\ t[2] > u[2]
    \/ t[1] = u[1] /\ t[2] = u[2] /\ t[3] > u[3]

Store == load_versions(versionsFile)

PreStore == load_versions(pre.versionsFile)

AllParseable(versions) == \A k \in StoreKeys(versions) : Parseable(k)

(* k is a key of versions that no key of versions is later than *)
Highest(versions, k) ==
    /\ k \in StoreKeys(versions)
    /\ Parseable(k)
    /\ \A j \in StoreKeys(versions) :
           Parseable(j) /\ ~Later(Release[j], Release[k])

EndsWith(s, suffix) ==
    /\ Len(s) >= Len(suffix)
    /\ SubSeq(s, Len(s) - Len(suffix) + 1, Len(s)) = suffix

KeyOrder(versions) == [i \in 1..Len(versions) |-> versions[i].key]

(* the orders in which the entries of versions can be scanned *)
Orders(versions) ==
    {p \in [1..Len(versions) -> 1..Len(versions)] :
        \A i, j \in 1..Len(versions) : i # j => p[i] # p[j]}

Reordered(versions, p) == [i \in 1..Len(versions) |-> versions[p[i]]]

ClientVersion == GetOr(req.current_version, DefaultCurrentVersion)

UpdateAvailable == resp.status = 200 /\ resp.kind = "check" /\ resp.body.download_url # <<>>

----------------------------------------------------------------------------
(* C1: an upload whose key is absent or differs from the shared secret is *)
(* answered 401, whatever else the form carries, and leaves versions.json *)
(* and the artifact directory as they were before the request.            *)
C1_UnauthorizedUploadChangesNothing ==
    (req.op = "upload" /\ req.key # Some(UPLOAD_KEY)) =>
        /\ resp.status = 401
        /\ versionsFile = pre.versionsFile
        /\ updatesDir = pre.updatesDir

C1_Witness ==
    /\ req.op = "upload"
    /\ req.key = Some("wrong")
    /\ resp.status = 401
    /\ Len(Store) = 2
    /\ DOMAIN updatesDir # {}

(* C2: against a non-empty store of parseable versions, check with a      *)
(* parseable current version c answers 200; when the highest stored       *)
(* version is later than c the payload carries a highest key of the       *)
(* store, the file size recorded for it and a non-empty download URL that *)
(* ends in it; otherwise it echoes c with empty changelog, empty URL and  *)
(* size 0.                                                                 *)
C2_CheckReportsHighestOrEchoes ==
    (/\ req.op = "check"
     /\ Store # <<>>
     /\ AllParseable(Store)
     /\ Parseable(ClientVersion)) =>
        /\ resp.status = 200
        /\ resp.kind = "check"
        /\ IF \E k \in StoreKeys(Store) : Later(Release[k], Release[ClientVersion])
           THEN /\ Highest(Store, resp.body.version)
                /\ resp.body.file_size = StoreGet(Store, resp.body.version).file_size
                /\ resp.body.download_url # <<>>
                /\ EndsWith(resp.body.download_url, resp.body.version)
           ELSE resp.body = [version |-> ClientVersion, changelog |-> "",
                             download_url |-> <<>>, file_size |-> 0]

C2_Witness ==
    /\ req.op = "check"
    /\ KeyOrder(Store) = <<V_1_10, V_1_9>>
    /\ req.current_version = Some(V_1_9)
    /\ resp.status = 200
    /\ resp.body.version = V_1_10
    /\ resp.body.file_size = 2

(* C3: when a successful upload of v is followed at once by check(c) with *)
(* c an earlier release than v, the check reports an available update     *)
(* with a non-empty download URL, the reported version is a highest key   *)
(* of the store, and it is v when v is later than every version stored    *)
(* before the upload.                                                      *)
C3_UploadThenCheckReportsUpdate ==
    [][(/\ req.op = "upload"
        /\ resp.status = 200
        /\ req'.op = "check"
        /\ Parseable(req.version[1])
        /\ Parseable(GetOr(req'.current_version, DefaultCurrentVersion))
        /\ Later(Release[req.version[1]],
                 Release[GetOr(req'.current_version, DefaultCurrentVersion)])) =>
           /\ resp'.status = 200
           /\ resp'.kind = "check"
           /\ resp'.body.download_url # <<>>
           /\ Highest(Store, resp'.body.version)
           /\ (\A k \in StoreKeys(PreStore) \ {req.version[1]} :
                   Parseable(k) /\ Later(Release[req.version[1]], Release[k]))
                 => resp'.body.version = req.version[1]]_vars

(* C3 on the stores whose keys are all parseable *)
C3_OnParseableStores ==
    [][(/\ req.op = "upload"
        /\ resp.status = 200
        /\ req'.op = "check"
        /\ AllParseable(Store)
        /\ Parseable(GetOr(req'.current_version, DefaultCurrentVersion))
        /\ Later(Release[req.version[1]],
                 Release[GetOr(req'.current_version, DefaultCurrentVersion)])) =>
           /\ resp'.status = 200
           /\ resp'.kind = "check"
           /\ resp'.body.download_url # <<>>
           /\ Highest(Store, resp'.body.version)
           /\ (\A k \in StoreKeys(PreStore) \ {req.version[1]} :
                   Later(Release[req.version[1]], Release[k]))
                 => resp'.body.version = req.version[1]]_vars

(* C4: a successful upload of a version that is already a key replaces    *)
(* that key's changelog and file size with the new values, keeps the keys *)
(* and their number as they were, and leaves every other record as it     *)
(* was.                                                                    *)
C4_ReuploadOverwritesInPlace ==
    (/\ req.op = "upload"
     /\ resp.status = 200
     /\ req.version[1] \in StoreKeys(PreStore)) =>
        /\ Len(Store) = Len(PreStore)
        /\ KeyOrder(Store) = KeyOrder(PreStore)
        /\ \A i \in 1..Len(Store) :
              IF Store[i].key = req.version[1]
              THEN /\ Store[i].info.changelog =
                          GetOr(req.changelog, DefaultUploadChangelog)
                   /\ Store[i].info.file_size = Len(req.file[1].content)
                   /\ Store[i].info.version = req.version[1]
              ELSE Store[i] = PreStore[i]

C4_Witness ==
    /\ req.op = "upload"
    /\ resp.status = 200
    /\ Len(PreStore) = 2
    /\ PreStore[1].key = req.version[1]
    /\ PreStore[1].info.changelog # Store[1].info.changelog
    /\ PreStore[1].info.file_size # Store[1].info.file_size

(* C5: with no store file, or with an empty mapping in it, check answers  *)
(* 200 with the client's own version, an empty changelog, an empty        *)
(* download URL and size 0, for every current version sent.               *)
C5_EmptyStoreEchoesClient ==
    (req.op = "check" /\ Store = <<>>) =>
        /\ resp.status = 200
        /\ resp.kind = "check"
        /\ resp.body = [version |-> ClientVersion, changelog |-> "",
                        download_url |-> <<>>, file_size |-> 0]

C5_Witness ==
    /\ req.op = "check"
    /\ versionsFile = [exists |-> FALSE, data |-> <<>>]
    /\ req.current_version = Some(V_x)
    /\ resp.status = 200
    /\ resp.body.version = V_x

(* C6: download(v) answers 404 when v is not a key of the store, answers  *)
(* 404 when v is a key and no artifact exists at its recorded path, and   *)
(* serves the artifact at that path when v is a key and the artifact      *)
(* exists; nothing else happens.                                           *)
C6_DownloadOutcomes ==
    req.op = "download" =>
        LET v == req.version[1]
        IN  /\ resp.status \in {200, 404}
            /\ v \notin StoreKeys(Store) =>
                   resp.status = 404 /\ resp.kind = "error"
            /\ (/\ v \in StoreKeys(Store)
                /\ StoreGet(Store, v).file_path \notin DOMAIN updatesDir) =>
                   resp.status = 404 /\ resp.kind = "error"
            /\ (/\ v \in StoreKeys(Store)
                /\ StoreGet(Store, v).file_path \in DOMAIN updatesDir) =>
                   /\ resp.status = 200
                   /\ resp.kind = "file"
                   /\ resp.body.content = updatesDir[StoreGet(Store, v).file_path]

C6_Witness ==
    /\ req.op = "download"
    /\ Len(Store) = 2
    /\ req.version[1] \in StoreKeys(Store)
    /\ StoreGet(Store, req.version[1]).file_path \notin DOMAIN updatesDir
    /\ DOMAIN updatesDir # {}
    /\ resp.status = 404
    /\ resp.body.error = <<"Arquivo não encontrado">>

(* C7: every key of the version store is parseable as a semantic version, *)
(* in every reachable state.                                               *)
C7_StoreKeysParseable == AllParseable(Store)

(* C8: against a non-empty store (here one of parseable versions), check  *)
(* with a current version that is absent or not parseable answers as for  *)
(* "0.0.0": it reports the highest stored version as available.           *)
C8_MalformedCurrentTreatedAsZero ==
    (/\ req.op = "check"
     /\ Store # <<>>
     /\ AllParseable(Store)
     /\ (req.current_version = Absent \/ ~Parseable(req.current_version[1]))) =>
        /\ UpdateAvailable
        /\ Highest(Store, resp.body.version)

(* C8 for the absent current version alone *)
C8_AbsentCurrentTreatedAsZero ==
    (/\ req.op = "check"
     /\ Store # <<>>
     /\ AllParseable(Store)
     /\ req.current_version = Absent) =>
        /\ UpdateAvailable
        /\ Highest(Store, resp.body.version)

(* C9: parse(a) > parse(b) holds exactly when the triple of a is a later  *)
(* release than the triple of b, numerically by major, then minor, then   *)
(* patch; of two distinct triples exactly one is greater, and a triple is *)
(* not greater than itself.                                                *)
C9_CompareIsNumericOrder ==
    cmp.done =>
        /\ cmp.gt <=> Later(cmp.ta, cmp.tb)
        /\ cmp.lt <=> Later(cmp.tb, cmp.ta)
        /\ cmp.ta # cmp.tb => cmp.gt # cmp.lt
        /\ cmp.ta = cmp.tb => ~cmp.gt /\ ~cmp.lt

C9_Witness ==
    /\ cmp.done
    /\ cmp.a = <<"1", ".", "0", ".", "1", "0">>
    /\ cmp.b = <<"1", ".", "0", ".", "9">>
    /\ cmp.gt
    /\ ~cmp.lt

(* C10: the latest record is none for an empty store, and otherwise a     *)
(* record of the store that no entry is later than, in whichever order    *)
(* the entries are scanned.                                                *)
C10_LatestIsHighest ==
    /\ Store = <<>> =>
          get_latest_version(versionsFile) =
              [raised |-> FALSE, exc |-> <<>>, latest |-> Absent]
    /\ Store # <<>> =>
          \A p \in Orders(Store) :
              LET r == get_latest_version(save_versions(Reordered(Store, p)))
              IN  /\ ~r.raised
                  /\ r.latest # Absent
                  /\ \E i \in 1..Len(Store) : Store[i].info = r.latest[1]
                  /\ Highest(Store, r.latest[1].version)

(* C10 on the stores whose keys are all parseable *)
C10_OnParseableStores == AllParseable(Store) => C10_LatestIsHighest

(* C11: whenever check reports an available update, the changelog of the  *)
(* payload is a non-empty string.                                          *)
C11_UpdateChangelogNonEmpty ==
    (req.op = "check" /\ UpdateAvailable) => resp.body.changelog # ""

(* C13: a check that fails internally answers with a generic error that   *)
(* does not carry the text of the exception.                               *)
C13_CheckFailureIsGeneric ==
    (req.op = "check" /\ resp.status = 500) =>
        resp.body.error \notin
            {InvalidVersionText(s) : s \in StoreKeys(Store) \cup {ClientVersion}}

(* C14: an upload with the configured key and a missing or empty version, *)
(* or no file part, or a file part with an empty filename, is answered    *)
(* 400 and changes neither the artifact directory nor the store.          *)
C14_BadUploadChangesNothing ==
    (/\ req.op = "upload"
     /\ req.key = Some(UPLOAD_KEY)
     /\ \/ req.version \in {Absent, Some(<<>>)}
        \/ req.file = Absent
        \/ req.file[1].filename = "") =>
        /\ resp.status = 400
        /\ versionsFile = pre.versionsFile
        /\ updatesDir = pre.updatesDir

C14_Witness ==
    /\ req.op = "upload"
    /\ req.key = Some(UPLOAD_KEY)
    /\ req.version = Some(<<>>)
    /\ resp.status = 400
    /\ Len(Store) = 2
    /\ DOMAIN updatesDir # {}

(* C16: when requests do not overlap, no request removes a key of the     *)
(* store, and the latest version that check and index report after a      *)
(* request is not an earlier release than the one they reported before.   *)
C16_PublishedOnlyGrows ==
    /\ StoreKeys(PreStore) \subseteq StoreKeys(Store)
    /\ LET before == get_latest_version(pre.versionsFile)
           after  == get_latest_version(versionsFile)
       IN  (/\ ~before.raised
            /\ before.latest # Absent
            /\ ~after.raised) =>
               /\ after.latest # Absent
               /\ \/ after.latest[1].version = before.latest[1].version
                  \/ /\ Parseable(before.latest[1].version)
                     /\ Parseable(after.latest[1].version)
                     /\ ~Later(Release[before.latest[1].version],
                               Release[after.latest[1].version])

C16_Witness ==
    /\ req.op = "upload"
    /\ resp.status = 200
    /\ KeyOrder(PreStore) = <<V_1_10>>
    /\ KeyOrder(Store) = <<V_1_10, V_1_9>>
    /\ get_latest_version(versionsFile).latest[1].version = V_1_10

(* C17: after any sequence of requests that do not overlap, every record  *)
(* of the store has its key as version and the path derived from it as    *)
(* file_path, the artifact exists at that path, and file_size is the      *)
(* number of bytes of the artifact stored there.                          *)
C17_RecordsMatchArtifacts ==
    \A i \in 1..Len(Store) :
        /\ Store[i].info.version = Store[i].key
        /\ Store[i].info.file_path = FilePath(Store[i].key)
        /\ Store[i].info.file_path \in DOMAIN updatesDir
        /\ Store[i].info.file_size = Len(updatesDir[Store[i].info.file_path])

C17_Witness ==
    /\ req.op = "upload"
    /\ resp.status = 200
    /\ Len(PreStore) = 2
    /\ req.version[1] \in StoreKeys(PreStore)
    /\ StoreGet(PreStore, req.version[1]).file_size # resp.body.file_size
    /\ \E i \in 1..2 : Store[i].info.file_size # resp.body.file_size

(* C19: when requests do not overlap, after a successful upload of v with *)
(* content B download(v) serves exactly B; a request that is not a        *)
(* successful upload of v leaves what download(v) answers as it was, for  *)
(* every v.                                                                *)
C19_DownloadServesLastUpload ==
    \A v \in VersionInputs :
        IF req.op = "upload" /\ resp.status = 200 /\ req.version = Some(v)
        THEN DownloadResponse(versionsFile, updatesDir, v) =
                 [status |-> 200, kind |-> "file",
                  body |-> [content |-> req.file[1].content,
                            download_name |-> "MoneyBot.exe",
                            mimetype |-> "application/octet-stream"]]
        ELSE DownloadResponse(versionsFile, updatesDir, v) =
                 DownloadResponse(pre.versionsFile, pre.updatesDir, v)

C19_Witness ==
    /\ req.op = "upload"
    /\ resp.status = 200
    /\ req.version = Some(V_1_10)
    /\ req.file[1].content = <<7, 8>>
    /\ KeyOrder(PreStore) = <<V_1_9>>
    /\ DownloadResponse(versionsFile, updatesDir, V_1_9).status = 200
    /\ DownloadResponse(versionsFile, updatesDir, V_1_9).body.content = <<7>>

----------------------------------------------------------------------------
(* Overlapping requests                                                    *)

AllDone == \A p \in Procs : procs[p].pc = "done"

(* p and q ran at the same time *)
Overlap(p, q) == q \in procs[p].seen \/ p \in procs[q].seen

Succeeded(p) == procs[p].op = "upload" /\ procs[p].resp.status = 200

(* C12: a step of check, download, health or index leaves versions.json   *)
(* and the artifact directory as they are, whatever the request answers   *)
(* and whatever requests run at the same time.                             *)
C12_ReadersChangeNothing ==
    [][\A p \in Procs :
           (procs'[p] # procs[p] /\ procs'[p].op \in ReadOps) =>
               /\ versionsFile' = versionsFile
               /\ versionsText' = versionsText
               /\ updatesDir' = updatesDir]_vars

C12_Witness ==
    /\ AllDone
    /\ procs[1].op = "download" /\ procs[1].resp.kind = "file"
    /\ procs[2].op = "check" /\ procs[2].resp.status = 500
    /\ Overlap(1, 2)
    /\ Len(versionsFile.data) = 1
    /\ versionsFile = pre.versionsFile
    /\ updatesDir = pre.updatesDir

(* C15: once every request is answered, versions.json holds exactly the   *)
(* mapping that the upload that saved last handed to save_versions.       *)
C15_FinalStoreIsLastSave ==
    (AllDone /\ saves # <<>>) =>
        /\ versionsText = "json"
        /\ load_versions(versionsFile) = Written(procs[saves[Len(saves)]])

(* the lost update of C15: two uploads of different versions both         *)
(* answered success, and the store holds only the later saver's record    *)
C15_LostUpdate ==
    /\ AllDone
    /\ Succeeded(1) /\ Succeeded(2)
    /\ procs[1].version # procs[2].version
    /\ versionsText = "json"
    /\ pre.versionsFile.data = <<>>
    /\ StoreKeys(load_versions(versionsFile)) =
           {procs[saves[Len(saves)]].version}

(* apart from a torn file, the last save is what the store holds *)
C15_WholeStoreIsLastSave ==
    (saves # <<>> /\ versionsText = "json") =>
        load_versions(versionsFile) = Written(procs[saves[Len(saves)]])

(* C18: once every request is answered, a record whose file_size is not   *)
(* the size of its artifact is the work of uploads that overlapped: two   *)
(* overlapping uploads of one version with files of different sizes can   *)
(* both succeed and leave such a record.                                   *)
C18_SizeMismatchNeedsOverlap ==
    (/\ AllDone
     /\ versionsText = "json"
     /\ \E i \in 1..Len(Store) :
            Store[i].info.file_size # Len(updatesDir[Store[i].info.file_path])) =>
        \E p, q \in Procs :
            /\ p # q
            /\ procs[p].op = "upload" /\ procs[q].op = "upload"
            /\ Overlap(p, q)

C18_Witness ==
    /\ AllDone
    /\ Succeeded(1) /\ Succeeded(2)
    /\ procs[1].version = V_1_10 /\ procs[2].version = V_1_10
    /\ Len(procs[1].content) # Len(procs[2].content)
    /\ Overlap(1, 2)
    /\ versionsText = "json"
    /\ CheckResponse(versionsFile, Absent).body.file_size #
           Len(DownloadResponse(versionsFile, updatesDir, V_1_10).body.content)

====
